---------------------------- MODULE Spec2Model ----------------------------
(***************************************************************************)
(* PiBot V3: the Master's WorkerPool (master_components.py) against the    *)
(* Worker's HTTP task executor (worker_task_executor.py), and the          *)
(* file-based TaskWorker lifecycle (worker_executor.py).                   *)
(*                                                                         *)
(* The Master runs on one asyncio event loop: code between two awaits is   *)
(* one atomic step.  Every HTTP call is split into the request being       *)
(* handled by the Worker and the response being processed by the Master;   *)
(* a transport error or timeout may hit before or after the Worker has     *)
(* handled the request.  The Worker serves requests on Flask threads and   *)
(* runs every accepted task on a background thread of its own.             *)
(***************************************************************************)
EXTENDS Integers, FiniteSets, Sequences, TLC

\* ------------------------------------------------------------------ bounds
NumWorkers == 2
NumTasks == 2
MaxCalls == 1
NumRegistered == 1
NumSkills == 2
Timeout == 1
MaxTime == 4
MaxPlans == 2
MaxPieces == 4
LongTimeout == 2

\* execute_task: poll_interval; _get_session: ClientTimeout(total=30);
\* assign_task: the default of its timeout parameter
poll_interval == 2
SessionTotal == 30
DefaultTimeout == 300

\* the worker ids a caller may name, the nodes behind them, the task ids
WorkerIds == 1..NumWorkers
Tasks == 1..NumTasks
None == 0

VARIABLES
  workers,       \* the keys of WorkerPool.workers, in registration order
  status,        \* WorkerInfo.status per registered worker
  current_task,  \* WorkerInfo.current_task per registered worker
  flow,          \* per task: the Master coroutine dispatching it
  calls,         \* HTTP calls in flight
  wcur,          \* WorkerExecutor._current_task per worker node
  wtask,         \* WorkerExecutor._tasks[t].status per worker node
  thread,        \* position of the background thread running t on a node
  wrec,          \* the other fields of the Task records in _tasks, per node
  registry,      \* the tools in the node's tool registry
  tw,            \* the file-based TaskWorker (worker_executor.py)
  now,           \* the wall clock, datetime.now().timestamp()
  last_heartbeat, \* WorkerInfo.last_heartbeat per registered worker
  planned,       \* the calls of TaskPlanner.analyze_task made so far
  startup,       \* os.environ, and whether create_default_worker_pool ran
  subtask,       \* the SubTask objects the callers of the pool hold
  monitor        \* WorkerPool._monitoring and the task running monitor_loop

vars == <<workers, status, current_task, flow, calls, wcur, wtask, thread, wrec, registry, tw, now, last_heartbeat, planned, startup, subtask, monitor>>
masterVars == <<workers, status, current_task, flow, calls>>
workerVars == <<wcur, wtask, thread, wrec, registry>>

\* ------------------------------------------------------- master: registry
\* WorkerStatus enum
WorkerStatus == {"idle", "busy", "offline"}

\* TaskStatus enum of the worker; wtask also holds "absent" for a task id
\* that is not in _tasks
TaskStatus == {"pending", "running", "completed", "failed", "cancelled"}

\* is_available counting an offline worker as available
is_available_up(w) == status[w] # "busy"

\* WorkerInfo.is_available
is_available(w) == status[w] = "idle"

\* get_available_worker returning the first worker, idle or not
get_available_worker_first == IF workers # {} THEN CHOOSE w \in workers : \A v \in workers : w <= v ELSE None

\* get_available_worker returning the idle worker registered last
get_available_worker_last == IF \E w \in workers : is_available(w) THEN CHOOSE w \in workers : is_available(w) /\ \A v \in workers : is_available(v) => v <= w ELSE None

\* WorkerPool.get_available_worker: first idle worker in registration order
get_available_worker == IF \E w \in workers : is_available(w) THEN CHOOSE w \in workers : is_available(w) /\ \A v \in workers : is_available(v) => w <= v ELSE None

\* a flow: its kind (a bare assign_task or an execute_task), where it is,
\* the worker it named or picked, and what it returned; assign_task's False is
\* "unavailable" before the network call and "assign_failed" after it
\* called, start (start_time) and wake (the end of the poll loop's sleep)
\* are clock readings the coroutine holds until it returns; timeout is the
\* timeout argument of the call and elapsed the local the poll loop computes
\* at its top, which the success and timeout outcomes carry; payload is the
\* result and error of the task record a terminal poll observed
NoData == [result |-> "null", error |-> "null"]
NoFlow == [kind |-> "none", pc |-> "idle", w |-> None, outcome |-> "none", called |-> None, start |-> None, wake |-> None, timeout |-> None, elapsed |-> None, payload |-> NoData]

\* the timeout argument of a flow: execute_task is called with Timeout, a
\* bare assign_task with its default
TimeoutOf(kind) == IF kind = "execute" THEN Timeout ELSE DefaultTimeout

\* the calls of kind op that wait for the Worker / for the Master
Requests(op) == {c \in calls : c.op = op /\ c.stage = "req"}
Responses(op) == {c \in calls : c.op = op /\ c.stage = "resp"}
Raised(op) == {c \in calls : c.op = op /\ c.stage = "exc"}

\* the number that tells a new call from the calls in flight: a flow's call
\* is known by its owner, the others take the first free number
FreshId(owner) == IF owner # None THEN None ELSE CHOOSE i \in 1..MaxCalls : (\A c \in calls : c.id # i) /\ (\A j \in 1..(i - 1) : \E c \in calls : c.id = j)

\* a new call record
NewCall(op, w, t, owner, total) == [id |-> FreshId(owner), op |-> op, w |-> w, t |-> t, owner |-> owner, stage |-> "req", code |-> 0, rstatus |-> "none", rdata |-> NoData, deadline |-> now + total]

\* at most MaxCalls calls are in flight that no execute/assign flow owns
StandaloneRoom == Cardinality({c \in calls : c.owner = None}) < MaxCalls

\* the shared aiohttp session: a call that is under way ends in a transport
\* error or a timeout, before or after the Worker has handled the request
Fault(c) ==
  /\ c \in calls /\ c.stage \in {"req", "resp"}
  /\ calls' = (calls \ {c}) \cup {[c EXCEPT !.stage = "exc", !.code = 0, !.rstatus = "none", !.rdata = NoData]}
  /\ UNCHANGED <<workers, status, current_task, flow, workerVars, tw, now, last_heartbeat, planned, startup, subtask, monitor>>

\* ------------------------------------------------------------ assign_task
\* assign_task without the optimistic marking
AssignMark_late(w, t) == status

\* assign_task, the optimistic marking before the network call
AssignMark(w, t) == [status EXCEPT ![w] = "busy"]

\* assign_task(w, t, timeout) up to its first await, run by flow t of the
\* given kind
AssignWithin(t, w, kind, timeout) ==
  IF w \notin workers \/ ~is_available(w)
  THEN /\ flow' = [flow EXCEPT ![t] = [NoFlow EXCEPT !.kind = kind, !.pc = "done", !.w = w, !.outcome = "unavailable"]]
       /\ UNCHANGED <<workers, status, current_task, calls>>
  ELSE /\ status' = AssignMark(w, t)
       /\ current_task' = [current_task EXCEPT ![w] = t]
       /\ calls' = calls \cup {NewCall("task", w, t, t, timeout)}
       /\ flow' = [flow EXCEPT ![t] = [NoFlow EXCEPT !.kind = kind, !.pc = "assign", !.w = w, !.called = now, !.timeout = timeout]]
       /\ UNCHANGED workers

\* assign_task with the timeout of the flow's kind
AssignBegin(t, w, kind) == AssignWithin(t, w, kind, TimeoutOf(kind))

\* a caller awaits assign_task(w, t) directly
AssignCall(t, w) ==
  /\ flow[t].kind = "none"
  /\ AssignBegin(t, w, "assign")
  /\ UNCHANGED <<workerVars, tw, now, last_heartbeat, planned, startup, subtask, monitor>>

\* execute_task(t, wid, timeout) up to the first await: pick the worker,
\* then assign_task
ExecuteWithin(t, wid, timeout) ==
  /\ flow[t].kind = "none"
  /\ LET worker == IF wid # None THEN (IF wid \in workers THEN wid ELSE None) ELSE get_available_worker
     IN IF worker = None
        THEN /\ flow' = [flow EXCEPT ![t] = [NoFlow EXCEPT !.kind = "execute", !.pc = "done", !.outcome = "no_workers"]]
             /\ UNCHANGED <<workers, status, current_task, calls>>
        ELSE AssignWithin(t, worker, "execute", timeout)
  /\ UNCHANGED <<workerVars, tw, now, last_heartbeat, planned, startup, subtask, monitor>>

\* execute_task called with the short timeout
ExecuteCall(t, wid) == ExecuteWithin(t, wid, TimeoutOf("execute"))

\* a caller calls get_available_worker directly and keeps what it returns
AvailableCall(t) ==
  /\ flow[t].kind = "none"
  /\ flow' = [flow EXCEPT ![t] = [NoFlow EXCEPT !.kind = "available", !.pc = "done", !.w = get_available_worker, !.outcome = "returned"]]
  /\ UNCHANGED <<workers, status, current_task, calls, workerVars, tw, now, last_heartbeat, planned, startup, subtask, monitor>>

\* test_parallel_execution: asyncio.gather starts execute_task(task) for
\* every task; a call starts while none of the others has returned
Gather(t) ==
  /\ \A u \in Tasks : flow[u].pc # "done"
  /\ ExecuteCall(t, None)

\* assign_task without the rollback of the status
Rollback_keep(s, w) == s

\* assign_task, the rollback of the marking
Rollback(s, w) == [s EXCEPT ![w] = "idle"]

\* what assign_task's caller does with its return value; execute_task
\* takes start_time and enters the poll loop
AfterAssign(t, ok) ==
  flow' = [flow EXCEPT ![t] = IF ok
                              THEN IF @.kind = "execute"
                                   THEN [@ EXCEPT !.pc = "poll", !.start = now, !.wake = now]
                                   ELSE [@ EXCEPT !.pc = "done", !.outcome = "assigned", !.called = None]
                              ELSE [@ EXCEPT !.pc = "done", !.outcome = "assign_failed", !.called = None]]

\* assign_task processes the Worker's response
AssignReturn(c) ==
  /\ c \in Responses("task")
  /\ calls' = calls \ {c}
  /\ IF c.code = 202
     THEN /\ AfterAssign(c.t, TRUE)
          /\ UNCHANGED <<status, current_task>>
     ELSE /\ status' = Rollback(status, c.w)
          /\ current_task' = [current_task EXCEPT ![c.w] = None]
          /\ AfterAssign(c.t, FALSE)
  /\ UNCHANGED <<workers, workerVars, tw, now, last_heartbeat, planned, startup, subtask, monitor>>

\* assign_task's except branch
AssignError(c) ==
  /\ c \in Raised("task")
  /\ calls' = calls \ {c}
  /\ status' = Rollback(status, c.w)
  /\ current_task' = [current_task EXCEPT ![c.w] = None]
  /\ AfterAssign(c.t, FALSE)
  /\ UNCHANGED <<workers, workerVars, tw, now, last_heartbeat, planned, startup, subtask, monitor>>

\* -------------------------------------------------------- get_task_result
\* get_task_result marking the worker idle on completed only
ResultTerminal_completed(st) == st = "completed"

\* get_task_result: the statuses on which the worker is marked idle
ResultTerminal(st) == st \in {"completed", "failed"}

\* a caller awaits get_task_result(w, t) directly
ResultCall(w, t) ==
  /\ w \in workers
  /\ StandaloneRoom
  /\ calls' = calls \cup {NewCall("result", w, t, None, SessionTotal)}
  /\ UNCHANGED <<workers, status, current_task, flow, workerVars, tw, now, last_heartbeat, planned, startup, subtask, monitor>>

\* execute_task: the poll loop asks for the result
ExecPoll(t) ==
  /\ flow[t].kind = "execute" /\ flow[t].pc = "poll"
  /\ calls' = calls \cup {NewCall("result", flow[t].w, t, t, SessionTotal)}
  /\ flow' = [flow EXCEPT ![t].pc = "result", ![t].wake = None, ![t].elapsed = now - flow[t].start]
  /\ UNCHANGED <<workers, status, current_task, workerVars, tw, now, last_heartbeat, planned, startup, subtask, monitor>>

\* execute_task: the "error" of the outcome it returns; "null" is None and
\* "absent" a dict without the key
ErrorOf(f) ==
  CASE f.outcome = "no_workers" -> "No available workers"
    [] f.outcome \in {"unavailable", "assign_failed"} -> "Failed to assign task"
    [] f.outcome = "timeout" -> "Task timeout"
    [] f.outcome = "failed" -> f.payload.error
    [] OTHER -> "absent"

\* execute_task: what the poll loop does with get_task_result's value
\* (rstatus = "none": get_task_result returned None); any other status
\* sleeps poll_interval and loops
AfterResult(owner, rstatus, rdata) ==
  IF owner = None
  THEN UNCHANGED flow
  ELSE flow' = [flow EXCEPT ![owner] = IF rstatus = "completed"
                                       THEN [@ EXCEPT !.pc = "done", !.outcome = "success", !.payload = rdata, !.called = None, !.start = None]
                                       ELSE IF rstatus = "failed"
                                       THEN [@ EXCEPT !.pc = "done", !.outcome = "failed", !.payload = rdata, !.called = None, !.start = None, !.elapsed = None]
                                       ELSE [@ EXCEPT !.pc = "poll", !.wake = now + poll_interval, !.elapsed = None]]

\* get_task_result processes the Worker's response
ResultReturn(c) ==
  /\ c \in Responses("result")
  /\ calls' = calls \ {c}
  /\ IF c.code = 200 /\ ResultTerminal(c.rstatus)
     THEN /\ status' = [status EXCEPT ![c.w] = "idle"]
          /\ current_task' = [current_task EXCEPT ![c.w] = None]
     ELSE UNCHANGED <<status, current_task>>
  /\ AfterResult(c.owner, IF c.code = 200 THEN c.rstatus ELSE "none", c.rdata)
  /\ UNCHANGED <<workers, workerVars, tw, now, last_heartbeat, planned, startup, subtask, monitor>>

\* get_task_result's except branch
ResultError(c) ==
  /\ c \in Raised("result")
  /\ calls' = calls \ {c}
  /\ AfterResult(c.owner, "none", NoData)
  /\ UNCHANGED <<workers, status, current_task, workerVars, tw, now, last_heartbeat, planned, startup, subtask, monitor>>

\* ------------------------------------------------------------ cancel_task
\* cancel_task resetting the worker whatever the Worker answers
CancelResets_any(code) == TRUE

\* cancel_task resetting the worker on no answer at all
CancelResets_never(code) == FALSE

\* cancel_task: the answers on which the worker is reset to idle and True
\* is returned
CancelResets(code) == code = 200

\* a caller awaits cancel_task(w, t) directly
CancelCall(w, t) ==
  /\ w \in workers
  /\ StandaloneRoom
  /\ calls' = calls \cup {NewCall("cancel", w, t, None, SessionTotal)}
  /\ UNCHANGED <<workers, status, current_task, flow, workerVars, tw, now, last_heartbeat, planned, startup, subtask, monitor>>

\* execute_task: elapsed > timeout at the top of the poll loop
ExecTimeout(t) ==
  /\ flow[t].kind = "execute" /\ flow[t].pc = "poll"
  /\ calls' = calls \cup {NewCall("cancel", flow[t].w, t, t, SessionTotal)}
  /\ flow' = [flow EXCEPT ![t].pc = "cancel", ![t].wake = None, ![t].elapsed = now - flow[t].start]
  /\ UNCHANGED <<workers, status, current_task, workerVars, tw, now, last_heartbeat, planned, startup, subtask, monitor>>

\* a caller awaits cancel_task(w, t) after its assign_task(w, t) has returned,
\* or without one, and keeps what it returns; False at once for a worker id
\* that is not registered
CancelAwait(t, w) ==
  /\ flow[t].kind = "none" \/ (flow[t].kind = "assign" /\ flow[t].pc = "done")
  /\ IF w \notin workers
     THEN /\ flow' = [flow EXCEPT ![t] = [NoFlow EXCEPT !.kind = "cancel", !.pc = "done", !.w = w, !.outcome = "not_cancelled"]]
          /\ UNCHANGED calls
     ELSE /\ flow' = [flow EXCEPT ![t] = [NoFlow EXCEPT !.kind = "cancel", !.pc = "cancel", !.w = w]]
          /\ calls' = calls \cup {NewCall("cancel", w, t, t, SessionTotal)}
  /\ UNCHANGED <<workers, status, current_task, workerVars, tw, now, last_heartbeat, planned, startup, subtask, monitor>>

\* what cancel_task's caller does with its return value: execute_task
\* returns the timeout outcome whatever it is, another caller keeps it
AfterCancel(owner, ok) ==
  IF owner = None
  THEN UNCHANGED flow
  ELSE flow' = [flow EXCEPT ![owner] = IF @.kind = "execute"
                                       THEN [@ EXCEPT !.pc = "done", !.outcome = "timeout", !.called = None, !.start = None]
                                       ELSE [@ EXCEPT !.pc = "done", !.outcome = IF ok THEN "cancelled" ELSE "not_cancelled"]]

\* cancel_task processes the Worker's response
CancelReturn(c) ==
  /\ c \in Responses("cancel")
  /\ calls' = calls \ {c}
  /\ IF CancelResets(c.code)
     THEN /\ status' = [status EXCEPT ![c.w] = "idle"]
          /\ current_task' = [current_task EXCEPT ![c.w] = None]
     ELSE UNCHANGED <<status, current_task>>
  /\ AfterCancel(c.owner, CancelResets(c.code))
  /\ UNCHANGED <<workers, workerVars, tw, now, last_heartbeat, planned, startup, subtask, monitor>>

\* cancel_task's except branch
CancelError(c) ==
  /\ c \in Raised("cancel")
  /\ calls' = calls \ {c}
  /\ AfterCancel(c.owner, FALSE)
  /\ UNCHANGED <<workers, status, current_task, workerVars, tw, now, last_heartbeat, planned, startup, subtask, monitor>>

\* ---------------------------------------------------------------- the clock
\* execute_task timing out on every test
TimedOut_always(elapsed, timeout) == TRUE

\* execute_task: "if elapsed > timeout"
TimedOut(elapsed, timeout) == elapsed > timeout

\* a flow that has to run now: the event loop resumes it at once
Due(t) == flow[t].pc = "poll" /\ flow[t].wake <= now

\* a call whose ClientTimeout has run out
Overdue(c) == c.stage \in {"req", "resp"} /\ c.deadline <= now

\* a background thread between two statements that take no time: only the
\* skills it runs ("running") take seconds
Stepping(w, t) == thread[w][t] \in {"spawned", "completed", "failed", "finally", "cleanup"}

\* a second passes; nothing that is due is held back, and no request thread
\* is between the cancel route's check and cancel_current_task
Tick ==
  /\ now < MaxTime
  /\ \A t \in Tasks : ~Due(t)
  /\ \A c \in calls : ~Overdue(c)
  /\ \A w \in WorkerIds, t \in Tasks : ~Stepping(w, t)
  /\ \A c \in calls : c.stage # "cancelling"
  /\ now' = now + 1
  /\ UNCHANGED <<masterVars, workerVars, tw, last_heartbeat, planned, startup, subtask, monitor>>

\* aiohttp raises the timeout of a call whose total has run out
Deadline(c) == Overdue(c) /\ Fault(c)

\* the poll loop under the clock: after the sleep, not timed out, poll
TimedPoll(t) ==
  /\ Due(t)
  /\ ~TimedOut(now - flow[t].start, flow[t].timeout)
  /\ ExecPoll(t)

\* the poll loop under the clock: after the sleep, timed out, cancel
TimedTimeout(t) ==
  /\ Due(t)
  /\ TimedOut(now - flow[t].start, flow[t].timeout)
  /\ ExecTimeout(t)

\* ---------------------------------------------------- check_worker_health
\* check_worker_health reporting idle on every 200
HealthStatus_idle(w) == "idle"

\* check_worker_health: the status a 200 yields
HealthStatus(w) == IF current_task[w] = None THEN "idle" ELSE "busy"

\* check_worker_health without the heartbeat update
Heartbeat_stale(w) == last_heartbeat

\* check_worker_health: the heartbeat a 200 records
Heartbeat(w) == [last_heartbeat EXCEPT ![w] = now]

\* the monitor loop, or a caller, probes worker w
HealthCall(w) ==
  /\ w \in workers
  /\ StandaloneRoom
  /\ calls' = calls \cup {NewCall("health", w, None, None, SessionTotal)}
  /\ UNCHANGED <<workers, status, current_task, flow, workerVars, tw, now, last_heartbeat, planned, startup, subtask, monitor>>

\* check_worker_health processes the Worker's response
HealthReturn(c) ==
  /\ c \in Responses("health")
  /\ calls' = calls \ {c}
  /\ status' = [status EXCEPT ![c.w] = IF c.code = 200 THEN HealthStatus(c.w) ELSE "offline"]
  /\ last_heartbeat' = IF c.code = 200 THEN Heartbeat(c.w) ELSE last_heartbeat
  /\ UNCHANGED <<workers, current_task, flow, workerVars, tw, now, planned, startup, subtask, monitor>>

\* check_worker_health's except branch
HealthError(c) ==
  /\ c \in Raised("health")
  /\ calls' = calls \ {c}
  /\ status' = [status EXCEPT ![c.w] = "offline"]
  /\ UNCHANGED <<workers, current_task, flow, workerVars, tw, now, last_heartbeat, planned, startup, subtask, monitor>>

\* ------------------------------------------- worker node: the HTTP routes
\* receive_task: the busy gate reads executor._current_task
receive_task_code(w) == IF wcur[w] # None THEN 409 ELSE 202

\* the answer to call c
Answer(c, code, rstatus) == (calls \ {c}) \cup {[c EXCEPT !.stage = "resp", !.code = code, !.rstatus = rstatus]}

\* Task(...) as receive_task creates it: no result, no error, no timestamps
NewTask == [result |-> "null", error |-> "null", started_at |-> None, completed_at |-> None]

\* Task.to_dict: the status, result and error a result response carries
to_dict(w, t) == [rstatus |-> wtask[w][t], rdata |-> [result |-> wrec[w][t].result, error |-> wrec[w][t].error]]

\* POST /task: reject when busy, else store the task and start its thread
receive_task(c) ==
  /\ c \in Requests("task")
  /\ LET code == receive_task_code(c.w)
     IN /\ calls' = Answer(c, code, "none")
        /\ IF code = 202
           THEN /\ wtask' = [wtask EXCEPT ![c.w][c.t] = "pending"]
                /\ wrec' = [wrec EXCEPT ![c.w][c.t] = NewTask]
                /\ thread' = [thread EXCEPT ![c.w][c.t] = "spawned"]
           ELSE UNCHANGED <<wtask, wrec, thread>>
  /\ UNCHANGED <<workers, status, current_task, flow, wcur, registry, tw, now, last_heartbeat, planned, startup, subtask, monitor>>

\* GET /task/<id>/result: 404 for an unknown id, else the task record
get_task_result(c) ==
  /\ c \in Requests("result")
  /\ calls' = IF wtask[c.w][c.t] = "absent"
              THEN Answer(c, 404, "none")
              ELSE (calls \ {c}) \cup {[c EXCEPT !.stage = "resp", !.code = 200, !.rstatus = to_dict(c.w, c.t).rstatus, !.rdata = to_dict(c.w, c.t).rdata]}
  /\ UNCHANGED <<workers, status, current_task, flow, workerVars, tw, now, last_heartbeat, planned, startup, subtask, monitor>>

\* POST /task/<id>/cancel, the check of the route: 404 unless the executor's
\* current task is the task named; else the request thread goes on to
\* cancel_current_task
cancel_task(c) ==
  /\ c \in Requests("cancel")
  /\ calls' = IF wcur[c.w] # None /\ wcur[c.w] = c.t
              THEN (calls \ {c}) \cup {[c EXCEPT !.stage = "cancelling"]}
              ELSE Answer(c, 404, "none")
  /\ UNCHANGED <<workers, status, current_task, flow, workerVars, tw, now, last_heartbeat, planned, startup, subtask, monitor>>

\* cancel_current_task leaving the status of the task as it is
Cancelled_kept(w) == wtask

\* cancel_current_task: the current task, if there is one, is CANCELLED
Cancelled(w) == IF wcur[w] # None THEN [wtask EXCEPT ![w][wcur[w]] = "cancelled"] ELSE wtask

\* cancel_current_task, called by the route, which answers 200 whatever it
\* returns: the executor's current task, read anew, is marked cancelled with
\* its error and completed_at
cancel_current_task(c) ==
  /\ c \in calls /\ c.stage = "cancelling"
  /\ wtask' = Cancelled(c.w)
  /\ wrec' = IF wcur[c.w] # None
             THEN [wrec EXCEPT ![c.w][wcur[c.w]].error = "cancelled", ![c.w][wcur[c.w]].completed_at = now]
             ELSE wrec
  /\ calls' = Answer(c, 200, "none")
  /\ UNCHANGED <<workers, status, current_task, flow, wcur, thread, registry, tw, now, last_heartbeat, planned, startup, subtask, monitor>>

\* GET /health
health(c) ==
  /\ c \in Requests("health")
  /\ calls' = Answer(c, 200, "none")
  /\ UNCHANGED <<workers, status, current_task, flow, workerVars, tw, now, last_heartbeat, planned, startup, subtask, monitor>>

\* ------------------------------- worker node: WorkerExecutor.execute_task
\* the skill files of the node's skills directory, and the skills task t
\* declares in its "skills" field
SkillsDir == 1..NumSkills
TaskSkills(t) == {k \in SkillsDir : k < t}

\* registry.clear() and load_skills_from_directory: every skill file of the
\* directory is registered, whatever the task declares
load_skills_from_directory(t) == SkillsDir

\* the background thread enters execute_task: status, started_at and
\* _current_task are written, the registry is cleared and loaded
ExecBegin(w, t) ==
  /\ thread[w][t] = "spawned"
  /\ wtask' = [wtask EXCEPT ![w][t] = "running"]
  /\ wrec' = [wrec EXCEPT ![w][t].started_at = now]
  /\ wcur' = [wcur EXCEPT ![w] = t]
  /\ registry' = [registry EXCEPT ![w] = load_skills_from_directory(t)]
  /\ thread' = [thread EXCEPT ![w][t] = "running"]
  /\ UNCHANGED <<masterVars, tw, now, last_heartbeat, planned, startup, subtask, monitor>>

\* execute_task letting the exception pass without recording it
StatusAfter_unrecorded(raised) == IF raised THEN "running" ELSE "completed"

\* execute_task: the status the try block ends with, COMPLETED at its end
\* and FAILED in its except branch
StatusAfter(raised) == IF raised THEN "failed" ELSE "completed"

\* the skills ran and returned: task.status = COMPLETED
ExecCompleted(w, t) ==
  /\ thread[w][t] = "running"
  /\ wtask' = [wtask EXCEPT ![w][t] = StatusAfter(FALSE)]
  /\ thread' = [thread EXCEPT ![w][t] = "completed"]
  /\ UNCHANGED <<masterVars, wcur, wrec, registry, tw, now, last_heartbeat, planned, startup, subtask, monitor>>

\* loading or running the skills raised: the except branch sets
\* task.status = FAILED
ExecFailed(w, t) ==
  /\ thread[w][t] = "running"
  /\ wtask' = [wtask EXCEPT ![w][t] = StatusAfter(TRUE)]
  /\ thread' = [thread EXCEPT ![w][t] = "failed"]
  /\ UNCHANGED <<masterVars, wcur, wrec, registry, tw, now, last_heartbeat, planned, startup, subtask, monitor>>

\* the statements after the status: task.result or task.error, then
\* task.completed_at
ExecRecord(w, t) ==
  /\ thread[w][t] \in {"completed", "failed"}
  /\ wrec' = [wrec EXCEPT ![w][t] = IF thread[w][t] = "completed"
                                     THEN [@ EXCEPT !.result = "output", !.completed_at = now]
                                     ELSE [@ EXCEPT !.error = "exception", !.completed_at = now]]
  /\ thread' = [thread EXCEPT ![w][t] = "finally"]
  /\ UNCHANGED <<masterVars, wcur, wtask, registry, tw, now, last_heartbeat, planned, startup, subtask, monitor>>

\* finally: self._current_task = None
ExecClear(w, t) ==
  /\ thread[w][t] = "finally"
  /\ wcur' = [wcur EXCEPT ![w] = None]
  /\ thread' = [thread EXCEPT ![w][t] = "cleanup"]
  /\ UNCHANGED <<masterVars, wtask, wrec, registry, tw, now, last_heartbeat, planned, startup, subtask, monitor>>

\* finally: self._cleanup() clears the registry and returns
ExecCleanup(w, t) ==
  /\ thread[w][t] = "cleanup"
  /\ registry' = [registry EXCEPT ![w] = {}]
  /\ thread' = [thread EXCEPT ![w][t] = "ended"]
  /\ UNCHANGED <<masterVars, wcur, wtask, wrec, tw, now, last_heartbeat, planned, startup, subtask, monitor>>

\* ------------------------------------------ worker_executor.py: TaskWorker
\* the task file handed to the TaskWorker, and the "type" of its task
TaskFiles == {"missing", "badjson", "ok"}
TaskTypes == {"shell", "file_op", "web_fetch", "skill", "generic"}

\* TaskWorker.__init__
NewTaskWorker(file, type) == [pc |-> "new", file |-> file, type |-> type, task_data |-> FALSE, task_id |-> FALSE, work_dir |-> FALSE, dir_exists |-> FALSE, result |-> "none", saved |-> 0]

\* run, step 1: load_task; mkdtemp is its last statement and may raise
TWLoad(mkdtempOk) ==
  /\ tw.pc = "new"
  /\ tw' = IF tw.file # "ok"
           THEN [tw EXCEPT !.pc = "finally", !.result = "failed_load"]
           ELSE IF mkdtempOk
           THEN [tw EXCEPT !.pc = "loaded", !.task_data = TRUE, !.task_id = TRUE, !.work_dir = TRUE, !.dir_exists = TRUE]
           ELSE [tw EXCEPT !.pc = "finally", !.task_data = TRUE, !.task_id = TRUE, !.result = "failed_load"]
  /\ UNCHANGED <<masterVars, workerVars, now, last_heartbeat, planned, startup, subtask, monitor>>

\* run, step 2: setup_environment; touching the memory file may raise
TWSetup(touchOk) ==
  /\ tw.pc = "loaded"
  /\ tw' = IF touchOk
           THEN [tw EXCEPT !.pc = "ready"]
           ELSE [tw EXCEPT !.pc = "finally", !.result = "failed_setup"]
  /\ UNCHANGED <<masterVars, workerVars, now, last_heartbeat, planned, startup, subtask, monitor>>

\* run, step 3: execute; only _execute_shell lets an exception through to
\* execute's handler, which turns it into a failed result
TWExecute(raises) ==
  /\ tw.pc = "ready"
  /\ raises => tw.type = "shell"
  /\ tw' = [tw EXCEPT !.pc = "finally", !.result = IF raises THEN "failed" ELSE "success"]
  /\ UNCHANGED <<masterVars, workerVars, now, last_heartbeat, planned, startup, subtask, monitor>>

\* run, finally: save_result; a failure to write is logged and swallowed
TWSave(writeOk) ==
  /\ tw.pc = "finally"
  /\ tw' = [tw EXCEPT !.pc = "cleanup", !.saved = IF writeOk THEN @ + 1 ELSE @]
  /\ UNCHANGED <<masterVars, workerVars, now, last_heartbeat, planned, startup, subtask, monitor>>

\* cleanup: rmtree, unlink and the clearing of the fields sit in one try
\* block; the first statement that raises skips the rest
cleanup(r, rmtreeOk, unlinkOk) ==
  IF r.work_dir /\ r.dir_exists /\ ~rmtreeOk
  THEN r
  ELSE LET r1 == [r EXCEPT !.dir_exists = FALSE]
       IN IF r1.file # "missing" /\ ~unlinkOk
          THEN r1
          ELSE [r1 EXCEPT !.file = "missing", !.task_data = FALSE, !.task_id = FALSE, !.work_dir = FALSE]

\* run, finally: cleanup, then run returns
TWCleanup(rmtreeOk, unlinkOk) ==
  /\ tw.pc = "cleanup"
  /\ tw' = [cleanup(tw, rmtreeOk, unlinkOk) EXCEPT !.pc = "returned"]
  /\ UNCHANGED <<masterVars, workerVars, now, last_heartbeat, planned, startup, subtask, monitor>>

\* ------------------------------------------ master_components: TaskPlanner
\* TaskComplexity enum
TaskComplexity == {"simple", "moderate", "complex"}

\* str.lower over the letters
UpperCase == "ABCDEFGHIJKLMNOPQRSTUVWXYZ"
LowerCase == "abcdefghijklmnopqrstuvwxyz"
lowerChar(ch) == IF \E i \in 1..Len(UpperCase) : SubSeq(UpperCase, i, i) = ch THEN LET i == CHOOSE i \in 1..Len(UpperCase) : SubSeq(UpperCase, i, i) = ch IN SubSeq(LowerCase, i, i) ELSE ch

RECURSIVE lower(_)
lower(s) == IF Len(s) = 0 THEN "" ELSE lowerChar(SubSeq(s, 1, 1)) \o lower(SubSeq(s, 2, Len(s)))

\* str.upper
upperChar(ch) == IF \E i \in 1..Len(LowerCase) : SubSeq(LowerCase, i, i) = ch THEN LET i == CHOOSE i \in 1..Len(LowerCase) : SubSeq(LowerCase, i, i) = ch IN SubSeq(UpperCase, i, i) ELSE ch

RECURSIVE upper(_)
upper(s) == IF Len(s) = 0 THEN "" ELSE upperChar(SubSeq(s, 1, 1)) \o upper(SubSeq(s, 2, Len(s)))

\* "k in s" on strings
Contains(s, k) == \E i \in 1..(Len(s) - Len(k) + 1) : SubSeq(s, i, i + Len(k) - 1) = k

\* str.replace(old, new) for a one-character old
RECURSIVE replace(_, _, _)
replace(s, old, new) == IF Len(s) = 0 THEN "" ELSE (IF SubSeq(s, 1, 1) = old THEN new ELSE SubSeq(s, 1, 1)) \o replace(SubSeq(s, 2, Len(s)), old, new)

\* str.split(sep): the pieces between the occurrences of sep, found from
\* the left, none overlapping another
RECURSIVE split(_, _)
split(s, sep) ==
  IF Contains(s, sep)
  THEN LET i == CHOOSE i \in 1..(Len(s) - Len(sep) + 1) : SubSeq(s, i, i + Len(sep) - 1) = sep /\ \A j \in 1..(i - 1) : SubSeq(s, j, j + Len(sep) - 1) # sep
       IN <<SubSeq(s, 1, i - 1)>> \o split(SubSeq(s, i + Len(sep), Len(s)), sep)
  ELSE <<s>>

\* str.strip: the spaces at both ends are dropped
RECURSIVE strip(_)
strip(s) ==
  IF Len(s) = 0 THEN ""
  ELSE IF SubSeq(s, 1, 1) = " " THEN strip(SubSeq(s, 2, Len(s)))
  ELSE IF SubSeq(s, Len(s), Len(s)) = " " THEN strip(SubSeq(s, 1, Len(s) - 1))
  ELSE s

\* _heuristic_analysis: the two keyword lists
complex_indicators == {"download", "fetch", "scrape", "network", "web", "http", "url", "sensor", "gpio", "hardware", "camera", "i2c", "spi", "compute", "calculate", "process", "analyze large", "batch", "deploy", "install", "configure system"}
simple_indicators == {"read file", "write file", "list", "show", "display", "get status", "check", "what is", "tell me", "simple query"}

\* _heuristic_analysis looking for the simple indicators first
heuristic_analysis_simple_first(task) ==
  LET task_lower == lower(task)
  IN IF \E k \in simple_indicators : Contains(task_lower, k) THEN "simple"
     ELSE IF \E k \in complex_indicators : Contains(task_lower, k) THEN "complex"
     ELSE "moderate"

\* _heuristic_analysis
heuristic_analysis(task) ==
  LET task_lower == lower(task)
  IN IF \E k \in complex_indicators : Contains(task_lower, k) THEN "complex"
     ELSE IF \E k \in simple_indicators : Contains(task_lower, k) THEN "simple"
     ELSE "moderate"

\* what the llm client does with the one call: it answers with a text, it
\* answers without a text (the default "MODERATE" is used), it raises or
\* answers with something that makes the parsing raise; NoClient is
\* llm_client = None
NoClient == [kind |-> "none", text |-> ""]

\* _llm_analysis falling back to COMPLEX
llm_analysis_complex(llm) ==
  IF llm.kind = "raises" THEN "complex"
  ELSE LET content_upper == upper(IF llm.kind = "text" THEN llm.text ELSE "MODERATE")
       IN IF Contains(content_upper, "SIMPLE") THEN "simple"
          ELSE "complex"

\* _llm_analysis: every exception is caught inside it
llm_analysis(llm) ==
  IF llm.kind = "raises" THEN "moderate"
  ELSE LET content_upper == upper(IF llm.kind = "text" THEN llm.text ELSE "MODERATE")
       IN IF Contains(content_upper, "SIMPLE") THEN "simple"
          ELSE IF Contains(content_upper, "COMPLEX") THEN "complex"
          ELSE "moderate"

\* _detect_required_skills: skill_map
skill_map == [web_fetch |-> {"download", "fetch", "web", "http", "url", "scrape"}, file_ops |-> {"read", "write", "file", "directory"}, shell |-> {"command", "execute", "run", "shell"}, dashboard_update |-> {"dashboard", "display", "show", "update screen"}, weather |-> {"weather", "temperature", "forecast"}, system |-> {"system", "status", "health", "monitor"}]

\* _detect_required_skills: list(set(skills))
detect_required_skills(task) ==
  LET task_lower == lower(task)
  IN {skill \in DOMAIN skill_map : \E keyword \in skill_map[skill] : Contains(task_lower, keyword)}

\* "if p.strip()" of the list comprehension
NonBlank(p) == strip(p) # ""

\* SubTask(task_id=f"subtask_{i}", description=part, skills=...)
SubTask(i, part) == [task_id |-> "subtask_" \o ToString(i), description |-> part, skills |-> detect_required_skills(part)]

\* _split_into_subtasks
split_into_subtasks(task) ==
  IF Contains(lower(task), "and") \/ Contains(task, ",")
  THEN LET kept == SelectSeq(split(replace(task, ",", " and "), " and "), NonBlank)
       IN [i \in 1..Len(kept) |-> SubTask(i, strip(kept[i]))]
  ELSE <<SubTask(1, task)>>

\* _create_plan delegating the moderate tasks too
create_plan_delegating(task, complexity) ==
  IF complexity = "simple"
  THEN [original_task |-> task, complexity |-> complexity, handle_locally |-> TRUE, subtasks |-> <<>>, required_skills |-> {}]
  ELSE [original_task |-> task, complexity |-> complexity, handle_locally |-> FALSE, subtasks |-> split_into_subtasks(task), required_skills |-> detect_required_skills(task)]

\* _create_plan
create_plan(task, complexity) ==
  IF complexity = "complex"
  THEN [original_task |-> task, complexity |-> complexity, handle_locally |-> FALSE, subtasks |-> split_into_subtasks(task), required_skills |-> detect_required_skills(task)]
  ELSE [original_task |-> task, complexity |-> complexity, handle_locally |-> TRUE, subtasks |-> <<>>, required_skills |-> {}]

\* analyze_task: the heuristic, overridden by the client's answer when a
\* client is configured, then the plan
analyze_task(task_description, llm) ==
  /\ Len(planned) < MaxPlans
  /\ LET complexity == IF llm.kind = "none" THEN heuristic_analysis(task_description) ELSE llm_analysis(llm)
     IN planned' = Append(planned, [llm |-> llm, plan |-> create_plan(task_description, complexity)])
  /\ UNCHANGED <<masterVars, workerVars, tw, now, last_heartbeat, startup, subtask, monitor>>

\* the requests: the pieces below put together, MaxPieces of them at most,
\* and some requests in full
Pieces == {"download", "List", "fix", "and", " and ", " ", ","}

RECURSIVE Joined(_)
Joined(n) == IF n = 0 THEN {""} ELSE Joined(n - 1) \cup {p \o t : p \in Pieces, t \in Joined(n - 1)}

Samples == {"download the file from example.com", "list files in /tmp", "fix this and also download the file", "Fetch the URL, then show it and update screen", "write a poem", "download the report,and,fetch the logs", "read file,deploy", "Tell me a story AND scrape it", ""}

Descriptions == Joined(MaxPieces) \cup Samples

\* the answers of the classifier
Replies == {"SIMPLE", "COMPLEX", "MODERATE", "simple", "Complex.", "This task is complex", "moderate, not Simple", "COMPLEX rather than SIMPLE", "I cannot tell", ""}

Clients == [kind : {"text"}, text : Replies] \cup {[kind |-> "no_text", text |-> ""], [kind |-> "raises", text |-> ""]}

\* ------------------------------------ master: create_default_worker_pool
\* the slots worker-1, worker-2, worker-3 of the environment
Slots == 1..3

\* an environment variable: not set, or set to a value
Unset == [set |-> FALSE, value |-> ""]
Set(v) == [set |-> TRUE, value |-> v]

\* os.environ.get(name, default)
get(var, default) == IF var.set THEN var.value ELSE default

\* str.startswith
startswith(s, prefix) == Len(s) >= Len(prefix) /\ SubSeq(s, 1, Len(prefix)) = prefix

\* an environment that names an address for the slots of reg and nothing else
EnvironFor(reg) == [n \in Slots |-> IF n \in reg THEN Set("192.168.10.66") ELSE Unset]

\* create_default_worker_pool: the test that appends slot n to workers_config
Configured(n, ip) == IF n = 1 THEN ip # "" /\ ~startswith(ip, "${") ELSE ip # ""

\* create_default_worker_pool: a new pool with add_worker for every slot of
\* workers_config
create_default_worker_pool ==
  /\ ~startup.created
  /\ LET config == {n \in Slots : Configured(n, get(startup.environ[n], ""))}
     IN /\ workers' = config
        /\ status' = [w \in config |-> "idle"]
        /\ current_task' = [w \in config |-> None]
        /\ last_heartbeat' = [w \in config |-> None]
  /\ startup' = [startup EXCEPT !.created = TRUE]
  /\ UNCHANGED <<flow, calls, workerVars, tw, now, planned, subtask, monitor>>

\* SubTask(task_id, description, skills): worker_id None, status "pending"
NewSubTask == [status |-> "pending", worker_id |-> None]

\* WorkerPool.__init__: _monitoring False, _monitor_task None; of the task
\* that runs monitor_loop: where it is, and in check_all_workers_health the
\* size of the dict when the for loop began, the key it is at, and the keys
\* of results
NewMonitor == [monitoring |-> FALSE, task |-> "none", size |-> 0, at |-> None, results |-> {}]

\* add_worker: workers[worker_id] = WorkerInfo(...), a new record also for
\* an id that is registered; ids are registered in increasing order (a new
\* key is behind the keys of the dict and behind the key a for loop over the
\* dict is at), and not while a call to the worker of that id is under way
add_worker(w) ==
  /\ \A v \in workers \cup {monitor.at} : v <= w
  /\ \A c \in calls : c.w # w
  /\ workers' = workers \cup {w}
  /\ status' = [v \in workers \cup {w} |-> IF v = w THEN "idle" ELSE status[v]]
  /\ current_task' = [v \in workers \cup {w} |-> IF v = w THEN None ELSE current_task[v]]
  /\ last_heartbeat' = [v \in workers \cup {w} |-> IF v = w THEN None ELSE last_heartbeat[v]]
  /\ UNCHANGED <<flow, calls, workerVars, tw, now, planned, startup, subtask, monitor>>

\* remove_worker: del workers[worker_id] if it is there
remove_worker(w) ==
  /\ workers' = workers \ {w}
  /\ status' = [v \in workers \ {w} |-> status[v]]
  /\ current_task' = [v \in workers \ {w} |-> current_task[v]]
  /\ last_heartbeat' = [v \in workers \ {w} |-> last_heartbeat[v]]
  /\ UNCHANGED <<flow, calls, workerVars, tw, now, planned, startup, subtask, monitor>>

\* start_monitoring: nothing when _monitoring is set, else the flag is set
\* and a task is created for monitor_loop
start_monitoring ==
  /\ monitor' = IF monitor.monitoring THEN monitor ELSE [NewMonitor EXCEPT !.monitoring = TRUE, !.task = "created"]
  /\ UNCHANGED <<masterVars, workerVars, tw, now, last_heartbeat, planned, startup, subtask>>

\* the iterator of "for worker_id in self.workers": RuntimeError when the
\* size of the dict has changed since the loop began, else the next key in
\* registration order, None when there is none
Changed(m) == Cardinality(workers) # m.size
Following(m) == {w \in workers : w > m.at}
next(m) == IF Following(m) = {} THEN None ELSE CHOOSE w \in Following(m) : \A v \in Following(m) : w <= v

\* the owner of the calls made by the task of monitor_loop
MonitorTask == NumTasks + 1

\* check_all_workers_health from one await to the next: the for loop asks
\* its iterator; the exception ends the task of monitor_loop, a key starts
\* check_worker_health up to its GET, and the end of the keys returns to
\* monitor_loop, which sleeps; rest are the other calls in flight
Advance(m, rest) ==
  IF Changed(m)
  THEN monitor' = [m EXCEPT !.task = "raised"] /\ calls' = rest
  ELSE IF next(m) = None
  THEN monitor' = [m EXCEPT !.task = "sleep"] /\ calls' = rest
  ELSE /\ monitor' = [m EXCEPT !.task = "probe", !.at = next(m)]
       /\ calls' = rest \cup {NewCall("health", next(m), None, MonitorTask, SessionTotal)}

\* monitor_loop: the task starts, or its sleep is over; while _monitoring is
\* set it calls check_all_workers_health, else it returns
MonitorSweep ==
  /\ monitor.task \in {"created", "sleep"}
  /\ IF monitor.monitoring
     THEN Advance([monitor EXCEPT !.size = Cardinality(workers), !.at = None, !.results = {}], calls)
     ELSE monitor' = [monitor EXCEPT !.task = "returned"] /\ UNCHANGED calls
  /\ UNCHANGED <<workers, status, current_task, flow, workerVars, tw, now, last_heartbeat, planned, startup, subtask>>

\* check_worker_health returns to check_all_workers_health: the record of
\* the worker, unless it has been removed from the pool meanwhile, is
\* updated as in HealthReturn and HealthError, and the for loop goes on
MonitorReturn(c) ==
  /\ monitor.task = "probe"
  /\ c \in Responses("health") \cup Raised("health")
  /\ c.owner = MonitorTask
  /\ LET ok == c.stage = "resp" /\ c.code = 200
     IN /\ status' = IF c.w \in workers THEN [status EXCEPT ![c.w] = IF ok THEN HealthStatus(c.w) ELSE "offline"] ELSE status
        /\ last_heartbeat' = IF c.w \in workers /\ ok THEN Heartbeat(c.w) ELSE last_heartbeat
  /\ Advance([monitor EXCEPT !.results = @ \cup {c.w}], calls \ {c})
  /\ UNCHANGED <<workers, current_task, flow, workerVars, tw, now, planned, startup, subtask>>

\* stop_monitoring: the flag is cleared and the task, if there is one that
\* has not ended, is cancelled where it waits; its GET is abandoned
stop_monitoring ==
  /\ monitor' = [monitor EXCEPT !.monitoring = FALSE, !.task = IF @ \in {"created", "probe", "sleep"} THEN "cancelled" ELSE @]
  /\ calls' = {c \in calls : c.owner # MonitorTask}
  /\ UNCHANGED <<workers, status, current_task, flow, workerVars, tw, now, last_heartbeat, planned, startup, subtask>>

\* ---------------------------------------------------------- specifications
\* WorkerPool.__init__ and add_worker for each id of reg
\* hb = None: no probe has run yet; hb = now: the monitor's first sweep has
\* found every worker healthy
InitRegistry(reg, hb) ==
  /\ workers = reg
  /\ status = [w \in reg |-> "idle"]
  /\ current_task = [w \in reg |-> None]
  /\ last_heartbeat = [w \in reg |-> hb]
  /\ flow = [t \in Tasks |-> NoFlow]
  /\ calls = {}
  /\ startup = [environ |-> EnvironFor(reg), created |-> TRUE]
  /\ subtask = [t \in Tasks |-> NewSubTask]
  /\ monitor = NewMonitor

InitNodes ==
  /\ wcur = [w \in WorkerIds |-> None]
  /\ wtask = [w \in WorkerIds |-> [t \in Tasks |-> "absent"]]
  /\ thread = [w \in WorkerIds |-> [t \in Tasks |-> "none"]]
  /\ wrec = [w \in WorkerIds |-> [t \in Tasks |-> NewTask]]
  /\ registry = [w \in WorkerIds |-> {}]
  /\ now = 1
  /\ planned = <<>>

\* a pool with the first worker registered and found healthy by the
\* monitor's first sweep; the other ids are unknown to it
Init ==
  /\ InitRegistry(1..NumRegistered, 1)
  /\ InitNodes
  /\ tw = NewTaskWorker("ok", "generic")

\* the Worker's result and cancel routes
NodePollNext ==
  \/ \E c \in calls : get_task_result(c)
  \/ \E c \in calls : cancel_task(c)
  \/ \E c \in calls : cancel_current_task(c)

\* the Worker's task route and its background threads
NodeNext ==
  \/ \E c \in calls : receive_task(c)
  \/ \E w \in WorkerIds, t \in Tasks : ExecBegin(w, t)
  \/ \E w \in WorkerIds, t \in Tasks : ExecCompleted(w, t)
  \/ \E w \in WorkerIds, t \in Tasks : ExecFailed(w, t)
  \/ \E w \in WorkerIds, t \in Tasks : ExecRecord(w, t)
  \/ \E w \in WorkerIds, t \in Tasks : ExecClear(w, t)
  \/ \E w \in WorkerIds, t \in Tasks : ExecCleanup(w, t)

\* assign_task
AssignNext ==
  \/ \E c \in calls : Fault(c)
  \/ \E c \in calls : AssignReturn(c)
  \/ \E c \in calls : AssignError(c)

\* the health probe and the Worker's health route
ProbeNext ==
  \/ \E w \in WorkerIds : HealthCall(w)
  \/ \E c \in calls : HealthReturn(c)
  \/ \E c \in calls : HealthError(c)
  \/ \E c \in calls : health(c)

\* get_task_result and cancel_task
PollNext ==
  \/ \E c \in calls : ResultReturn(c)
  \/ \E c \in calls : ResultError(c)
  \/ \E c \in calls : CancelReturn(c)
  \/ \E c \in calls : CancelError(c)
  \/ NodePollNext

\* assign_task, get_task_result, cancel_task and check_worker_health,
\* called in any order
Next ==
  \/ \E t \in Tasks, w \in WorkerIds : AssignCall(t, w)
  \/ \E w \in WorkerIds, t \in Tasks : ResultCall(w, t)
  \/ \E w \in WorkerIds, t \in Tasks : CancelCall(w, t)
  \/ AssignNext
  \/ ProbeNext
  \/ PollNext
  \/ NodeNext

Spec == Init /\ [][Next]_vars

\* only assign_task calls and health probes reach the pool
NextAssign ==
  \/ \E t \in Tasks, w \in WorkerIds : AssignCall(t, w)
  \/ AssignNext
  \/ ProbeNext
  \/ NodeNext

\* a pool with any number of workers registered, none included
InitAny ==
  /\ \E n \in 0..NumWorkers : InitRegistry(1..n, 1)
  /\ InitNodes
  /\ tw = NewTaskWorker("ok", "generic")

\* a pool before its first probe
InitFresh ==
  /\ InitRegistry(1..NumRegistered, None)
  /\ InitNodes
  /\ tw = NewTaskWorker("ok", "generic")

\* a pool with every worker registered
InitAll ==
  /\ InitRegistry(WorkerIds, 1)
  /\ InitNodes
  /\ tw = NewTaskWorker("ok", "generic")

SpecAssign == InitAll /\ [][NextAssign]_vars

\* only execute_task calls reach the pool
NextExec ==
  \/ \E t \in Tasks, wid \in WorkerIds \cup {None} : ExecuteCall(t, wid)
  \/ \E t \in Tasks : ExecPoll(t)
  \/ \E t \in Tasks : ExecTimeout(t)
  \/ AssignNext
  \/ PollNext
  \/ NodeNext

SpecExec == InitAll /\ [][NextExec]_vars

\* the event loop and the Worker's threads keep running
SpecExecFair == SpecExec /\ WF_vars(NextExec)

\* execute_task on a pool of any size
SpecPick == InitAny /\ [][NextExec]_vars

\* get_available_worker between assign_task calls and probes, on a pool of
\* any size
NextAvail ==
  \/ \E t \in Tasks : AvailableCall(t)
  \/ NextAssign

SpecAvail == InitAny /\ [][NextAvail]_vars

\* execute_task calls gathered against Workers that answer every request
\* and whose skills run to their end before the timeout
NextParallel ==
  \/ \E t \in Tasks : Gather(t)
  \/ \E t \in Tasks : ExecPoll(t)
  \/ \E c \in calls : AssignReturn(c)
  \/ \E c \in calls : ResultReturn(c)
  \/ \E c \in calls : receive_task(c)
  \/ \E c \in calls : get_task_result(c)
  \/ \E w \in WorkerIds, t \in Tasks : ExecBegin(w, t)
  \/ \E w \in WorkerIds, t \in Tasks : ExecCompleted(w, t)
  \/ \E w \in WorkerIds, t \in Tasks : ExecRecord(w, t)
  \/ \E w \in WorkerIds, t \in Tasks : ExecClear(w, t)
  \/ \E w \in WorkerIds, t \in Tasks : ExecCleanup(w, t)

SpecParallel == InitAll /\ [][NextParallel]_vars

\* the background threads of the Worker
ThreadNext ==
  \/ \E w \in WorkerIds, t \in Tasks : ExecBegin(w, t)
  \/ \E w \in WorkerIds, t \in Tasks : ExecCompleted(w, t)
  \/ \E w \in WorkerIds, t \in Tasks : ExecFailed(w, t)
  \/ \E w \in WorkerIds, t \in Tasks : ExecRecord(w, t)
  \/ \E w \in WorkerIds, t \in Tasks : ExecClear(w, t)
  \/ \E w \in WorkerIds, t \in Tasks : ExecCleanup(w, t)

\* assign_task and cancel_task calls against Workers that answer; a thread
\* that was started keeps running: its run step returns or raises
NextCancel ==
  \/ \E t \in Tasks, w \in WorkerIds : AssignCall(t, w)
  \/ \E w \in WorkerIds, t \in Tasks : CancelCall(w, t)
  \/ \E c \in calls : AssignReturn(c)
  \/ \E c \in calls : CancelReturn(c)
  \/ \E c \in calls : receive_task(c)
  \/ \E c \in calls : cancel_task(c)
  \/ \E c \in calls : cancel_current_task(c)
  \/ ThreadNext

SpecCancel == Init /\ [][NextCancel]_vars /\ WF_vars(ThreadNext)

\* a caller that assigns a task and cancels it, over a network that may
\* fail; the second worker id is not registered
NextRevoke ==
  \/ \E t \in Tasks, w \in WorkerIds : AssignCall(t, w)
  \/ \E t \in Tasks, w \in WorkerIds : CancelAwait(t, w)
  \/ AssignNext
  \/ \E c \in calls : CancelReturn(c)
  \/ \E c \in calls : CancelError(c)
  \/ \E c \in calls : cancel_task(c)
  \/ \E c \in calls : cancel_current_task(c)
  \/ NodeNext

SpecRevoke == Init /\ [][NextRevoke]_vars

\* one call of analyze_task on a planner without a client, on any request
NextHeuristic == \E r \in Descriptions : Len(planned) = 0 /\ analyze_task(r, NoClient)

SpecHeuristic == Init /\ [][NextHeuristic]_vars

\* one call of analyze_task on a planner with a client, or without one
NextClassified == \E r \in Samples, llm \in Clients \cup {NoClient} : Len(planned) = 0 /\ analyze_task(r, llm)

SpecClassified == Init /\ [][NextClassified]_vars

\* analyze_task called again and again on one planner
NextPlanner == \E r \in Samples, llm \in {NoClient, [kind |-> "text", text |-> "COMPLEX"]} : analyze_task(r, llm)

SpecPlanner == Init /\ [][NextPlanner]_vars

\* assign_task and the probes under the clock
NextProbe ==
  \/ Tick
  \/ \E t \in Tasks, w \in WorkerIds : AssignCall(t, w)
  \/ AssignNext
  \/ ProbeNext
  \/ NodeNext

SpecProbe == InitFresh /\ [][NextProbe]_vars

\* execute_task without a worker id under the clock; the only transport
\* error is a ClientTimeout that has run out
NextTimed ==
  \/ Tick
  \/ \E t \in Tasks : ExecuteCall(t, None)
  \/ \E t \in Tasks : TimedPoll(t)
  \/ \E t \in Tasks : TimedTimeout(t)
  \/ \E c \in calls : Deadline(c)
  \/ \E c \in calls : AssignReturn(c)
  \/ \E c \in calls : AssignError(c)
  \/ \E c \in calls : ResultReturn(c)
  \/ \E c \in calls : CancelReturn(c)
  \/ NodePollNext
  \/ NodeNext

SpecTimed == Init /\ [][NextTimed]_vars

\* the values of a slot's variable: not set, empty, the placeholder a
\* template leaves unexpanded, an address, a host name
Placeholder(n) == "${WORKER_" \o ToString(n) \o "_IP}"
Values(n) == {Unset, Set(""), Set(Placeholder(n)), Set("192.168.10.66"), Set("worker.local")}

\* a process that has not built its pool yet, in any environment
InitEnviron ==
  /\ \E env \in [Slots -> UNION {Values(n) : n \in Slots}] :
       /\ \A n \in Slots : env[n] \in Values(n)
       /\ startup = [environ |-> env, created |-> FALSE]
  /\ workers = {}
  /\ status = [w \in {} |-> "idle"]
  /\ current_task = [w \in {} |-> None]
  /\ last_heartbeat = [w \in {} |-> None]
  /\ flow = [t \in Tasks |-> NoFlow]
  /\ calls = {}
  /\ subtask = [t \in Tasks |-> NewSubTask]
  /\ monitor = NewMonitor
  /\ InitNodes
  /\ tw = NewTaskWorker("ok", "generic")

NextEnviron == create_default_worker_pool

SpecEnviron == InitEnviron /\ [][NextEnviron]_vars

\* the monitor between start_monitoring and stop_monitoring, while workers
\* are added to the pool and removed from it and tasks are assigned
NextMonitor ==
  \/ start_monitoring
  \/ stop_monitoring
  \/ MonitorSweep
  \/ \E c \in calls : MonitorReturn(c)
  \/ \E w \in WorkerIds : add_worker(w)
  \/ \E w \in WorkerIds : remove_worker(w)
  \/ \E c \in calls : health(c)
  \/ \E t \in Tasks, w \in WorkerIds : AssignCall(t, w)
  \/ \E c \in calls : Fault(c)
  \/ \E c \in calls : AssignReturn(c)
  \/ \E c \in calls : AssignError(c)
  \/ \E c \in calls : receive_task(c)

SpecMonitor == Init /\ [][NextMonitor]_vars

\* execute_task called with a timeout that a task of a second does not reach
NextPatient ==
  \/ Tick
  \/ \E t \in Tasks : ExecuteWithin(t, None, LongTimeout)
  \/ \E t \in Tasks : TimedPoll(t)
  \/ \E t \in Tasks : TimedTimeout(t)
  \/ \E c \in calls : Deadline(c)
  \/ \E c \in calls : AssignReturn(c)
  \/ \E c \in calls : AssignError(c)
  \/ \E c \in calls : ResultReturn(c)
  \/ \E c \in calls : CancelReturn(c)
  \/ NodePollNext
  \/ NodeNext

SpecPatient == Init /\ [][NextPatient]_vars

\* execute_task under the clock, against Workers that never answer
NextSilent ==
  \/ Tick
  \/ \E t \in Tasks, wid \in WorkerIds \cup {None} : ExecuteCall(t, wid)
  \/ \E c \in calls : Deadline(c)
  \/ \E c \in calls : AssignError(c)

SpecSilent == InitAll /\ [][NextSilent]_vars

\* one run of the TaskWorker on any task file
InitTW ==
  /\ InitRegistry(WorkerIds, 1)
  /\ InitNodes
  /\ tw \in {NewTaskWorker(f, ty) : f \in TaskFiles, ty \in TaskTypes}

NextTW ==
  \/ \E ok \in BOOLEAN : TWLoad(ok)
  \/ \E ok \in BOOLEAN : TWSetup(ok)
  \/ \E raises \in BOOLEAN : TWExecute(raises)
  \/ \E ok \in BOOLEAN : TWSave(ok)
  \/ \E rm \in BOOLEAN, ul \in BOOLEAN : TWCleanup(rm, ul)

SpecTW == InitTW /\ [][NextTW]_vars

\* ------------------------------------------------------------------ claims
\* the flows that passed assign_task's precondition on w and have not failed
Holding(w) == {t \in Tasks : flow[t].w = w /\ (flow[t].pc = "assign" \/ flow[t].outcome = "assigned")}

\* C1: of the assign calls that overlap on one worker only one passes the
\* idle precondition and marks the worker busy; a call returns true only
\* for a task the Worker acknowledged, and while a call holds the worker no
\* second task is assigned to it.
C1_SingleFlight ==
  \A w \in workers :
    /\ Cardinality(Holding(w)) <= 1
    /\ \A t \in Holding(w) : status[w] # "idle" /\ current_task[w] = t
    /\ \A t \in Holding(w) : flow[t].outcome = "assigned" => wtask[w][t] # "absent"

\* C1 witness: an assign call was turned away while another call's network
\* call to the same worker was under way
C1_Witness ==
  \E w \in workers, t \in Tasks, u \in Tasks :
    /\ flow[t].w = w /\ flow[t].pc = "assign"
    /\ flow[u].w = w /\ flow[u].outcome = "unavailable"
    /\ status[w] = "busy" /\ current_task[w] = t

\* the tasks a node has accepted and that have not reached a terminal state
Outstanding(w) == {t \in Tasks : thread[w][t] \in {"spawned", "running"}}

\* C2: a Worker Executor has at most one outstanding task at any time.
C2_SingleTask == \A w \in WorkerIds : Cardinality(Outstanding(w)) <= 1

\* C3: a POST /task that arrives after the prior task's terminal status is
\* set and before its cleanup has finished is not accepted.
C3_BusyUntilCleanup ==
  [][\A w \in WorkerIds, t \in Tasks :
       (thread[w][t] = "none" /\ thread'[w][t] = "spawned")
         => \A u \in Tasks : thread[w][u] \notin {"completed", "failed", "finally", "cleanup"}]_vars

\* C4: an assign whose network call fails returns false and leaves the
\* worker idle with no current_task, as before the call.
C4_Rollback ==
  [][\A t \in Tasks :
       (flow[t].pc = "assign" /\ flow'[t].outcome = "assign_failed")
         => /\ status'[flow[t].w] = "idle"
            /\ current_task'[flow[t].w] = None
            /\ flow'[t].pc = "done"]_vars

\* C4 witness: a failed assign has returned and its worker is idle again
C4_Witness ==
  \E t \in Tasks :
    /\ flow[t].outcome = "assign_failed"
    /\ status[flow[t].w] = "idle" /\ current_task[flow[t].w] = None
    /\ wtask[flow[t].w][t] = "absent"

\* execute has returned the timeout outcome for t and its worker is still
\* recorded with t
LeftBehind(t) == flow[t].outcome = "timeout" /\ current_task[flow[t].w] = t

\* when only execute_task calls and probes reach the pool, a worker left
\* behind with a timed-out task keeps it in every later step
StaysLeftBehind == [][\A t \in Tasks : LeftBehind(t) => LeftBehind(t)']_vars

\* C5: after execute's timeout handling has issued cancel, the Master's
\* record of the worker does not stay busy with the timed-out task forever.
C5_EventuallyFree ==
  \A t \in Tasks : (flow[t].outcome = "timeout") ~> ~LeftBehind(t)

\* C6: a worker is recorded with current_task = t only while the execute
\* flow of t is under way, and no longer once that flow has returned.
C6_BusyWindow ==
  \A w \in workers :
    current_task[w] # None
      => /\ flow[current_task[w]].w = w
         /\ flow[current_task[w]].pc \notin {"idle", "done"}

\* C7: current_task is non-null if and only if status is busy.
C7_Original == \A w \in workers : (current_task[w] # None) <=> (status[w] = "busy")

\* C7 as amended: a busy worker has a current_task and an idle worker has
\* none; a worker a failed probe marked offline keeps its current_task.
C7_TaskIffBusy ==
  \A w \in workers :
    /\ status[w] = "busy" => current_task[w] # None
    /\ status[w] = "idle" => current_task[w] = None

\* C7 witness: a probe failed while a task was assigned
C7_Witness == \E w \in workers : status[w] = "offline" /\ current_task[w] # None

\* the calls that return to their caller in this step
Returning == {c \in calls : \A d \in calls' : <<d.id, d.owner>> # <<c.id, c.owner>>}

\* the calls of kind op for worker w whose response the Master processes in
\* this step
Processed(op, w) == {c \in Returning : c.op = op /\ c.w = w /\ c.stage = "resp"}

\* a probe of w ends in this step, with a 200 / without one
ProbeOk(w) == \E c \in Processed("health", w) : c.code = 200
ProbeFailed(w) == \E c \in Returning : c.op = "health" /\ c.w = w /\ ~(c.stage = "resp" /\ c.code = 200)

\* an assign_task call passes its precondition on w in this step
AssignPasses(w) == \E t \in Tasks : flow[t].pc = "idle" /\ flow'[t].pc = "assign" /\ flow'[t].w = w

\* a result retrieval observes a terminal status, or a cancel is acknowledged
Released(w) ==
  \/ \E c \in Processed("result", w) : c.code = 200 /\ c.rstatus \in {"completed", "failed", "cancelled"}
  \/ \E c \in Processed("cancel", w) : c.code = 200

\* an assign_task call to w fails after its network call in this step
RolledBack(w) == \E t \in Tasks : flow[t].w = w /\ flow[t].pc = "assign" /\ flow'[t].outcome = "assign_failed"

\* C8: a worker's status changes only idle -> busy on assignment, busy ->
\* idle on a terminal result retrieval or a cancellation, idle|busy ->
\* offline on a failed probe, offline -> idle|busy on a successful probe.
C8_Original ==
  [][\A w \in workers :
       status'[w] # status[w]
         => \/ status[w] = "idle" /\ status'[w] = "busy" /\ AssignPasses(w)
            \/ status[w] = "busy" /\ status'[w] = "idle" /\ Released(w)
            \/ status[w] \in {"idle", "busy"} /\ status'[w] = "offline" /\ ProbeFailed(w)
            \/ status[w] = "offline" /\ status'[w] = HealthStatus(w) /\ ProbeOk(w)]_vars

\* C8 as amended: besides these, the rollback of a failed assign takes a
\* worker to idle, and a result retrieval, a cancellation or a rollback
\* takes an offline worker to idle too.
C8_Transitions ==
  [][\A w \in workers :
       status'[w] # status[w]
         => \/ status[w] = "idle" /\ status'[w] = "busy" /\ AssignPasses(w)
            \/ status[w] \in {"busy", "offline"} /\ status'[w] = "idle" /\ (Released(w) \/ RolledBack(w))
            \/ status[w] \in {"idle", "busy"} /\ status'[w] = "offline" /\ ProbeFailed(w)
            \/ status[w] = "offline" /\ status'[w] = HealthStatus(w) /\ ProbeOk(w)]_vars

\* C8 witness: a terminal result is about to be processed for a worker that
\* a failed probe marked offline
C8_Witness ==
  \E c \in Responses("result") :
    /\ c.code = 200 /\ c.rstatus \in {"completed", "failed"}
    /\ status[c.w] = "offline" /\ current_task[c.w] = c.t

\* C9: a result retrieval that observes the worker's current task in a
\* terminal state (completed, failed or cancelled) sets the worker idle and
\* clears current_task in that same retrieval.
C9_TerminalReleases ==
  [][\A c \in Returning :
       (c.op = "result" /\ c.stage = "resp" /\ c.code = 200
          /\ c.rstatus \in {"completed", "failed", "cancelled"}
          /\ current_task[c.w] = c.t)
         => status'[c.w] = "idle" /\ current_task'[c.w] = None]_vars

\* C10: once the TaskWorker's lifecycle has ended, the scratch directory is
\* gone and the task-scoped in-memory state is released.
C10_Destroyed ==
  tw.pc = "returned"
    => ~tw.dir_exists /\ ~tw.task_data /\ ~tw.task_id /\ ~tw.work_dir

\* the tasks whose thread on node w has not ended
Unfinished(w) == {t \in Tasks : thread[w][t] \notin {"none", "ended"}}

C12_NoCapacity ==
  [][\A t \in Tasks :
       (ExecuteCall(t, None) /\ \A w \in workers : status[w] # "idle")
         => /\ flow'[t].pc = "done" /\ flow'[t].outcome = "no_workers"
            /\ ErrorOf(flow'[t]) = "No available workers"
            /\ UNCHANGED <<workers, status, current_task, last_heartbeat, calls>>]_vars

\* C12 witness: execute found workers registered, none of them idle
C12_Witness ==
  \E t \in Tasks :
    /\ flow[t].outcome = "no_workers"
    /\ workers # {} /\ \A w \in workers : status[w] # "idle"

\* what the poll of flow t that returns in this step observed
Observed(c) == IF c.stage = "resp" /\ c.code = 200 THEN c.rstatus ELSE "none"

\* C13: execute keeps polling while the observed status is not terminal; it
\* returns success with the result exactly when a poll observes completed,
\* failure with the error exactly when a poll observes failed, and the
\* worker is then idle with no current_task.
C13_PollOutcome ==
  [][\A t \in Tasks :
       /\ \A c \in Returning :
            (c.op = "result" /\ c.owner = t)
              => /\ Observed(c) = "completed"
                      => /\ flow'[t].pc = "done" /\ flow'[t].outcome = "success"
                         /\ flow'[t].payload = c.rdata
                         /\ status'[c.w] = "idle" /\ current_task'[c.w] = None
                 /\ Observed(c) = "failed"
                      => /\ flow'[t].pc = "done" /\ flow'[t].outcome = "failed"
                         /\ flow'[t].payload = c.rdata
                         /\ status'[c.w] = "idle" /\ current_task'[c.w] = None
                 /\ Observed(c) \notin {"completed", "failed"}
                      => flow'[t].pc = "poll" /\ flow'[t].outcome = "none"
       /\ (flow[t].outcome = "none" /\ flow'[t].outcome \in {"success", "failed"})
            => \E c \in Returning :
                 /\ c.op = "result" /\ c.owner = t
                 /\ Observed(c) = (IF flow'[t].outcome = "success" THEN "completed" ELSE "failed")]_vars

\* C13 witness: execute has returned success with the result and the worker
\* is idle again
C13_Witness ==
  \E t \in Tasks :
    /\ flow[t].kind = "execute" /\ flow[t].outcome = "success"
    /\ flow[t].payload.result = "output"
    /\ status[flow[t].w] = "idle" /\ current_task[flow[t].w] = None

\* C14: execute goes to its timeout branch only when the time since
\* start_time exceeds the timeout, it sends the cancel request in that step,
\* and it returns the timeout outcome only when that cancel has returned.
C14_TimeoutThenCancel ==
  [][\A t \in Tasks :
       /\ (flow[t].pc = "poll" /\ flow'[t].pc = "cancel")
            => /\ now - flow[t].start > Timeout
               /\ \E c \in calls' \ calls :
                    c.op = "cancel" /\ c.w = flow[t].w /\ c.t = t /\ c.stage = "req"
       /\ (flow[t].outcome = "none" /\ flow'[t].outcome = "timeout")
            => /\ flow[t].pc = "cancel"
               /\ now - flow[t].start > Timeout
               /\ \E c \in Returning : c.op = "cancel" /\ c.owner = t /\ c.t = t]_vars

\* C14 witness: the timeout was found and the cancel request is under way
C14_Witness ==
  \E t \in Tasks :
    /\ flow[t].pc = "cancel" /\ now - flow[t].start > Timeout
    /\ \E c \in calls : c.op = "cancel" /\ c.owner = t

\* C15: against a worker that never answers, an execute that found its worker
\* returns the timeout outcome, no earlier than Timeout and no later than
\* Timeout + poll_interval after the call.
C15_TimeoutWindow ==
  [][\A t \in Tasks :
       (flow[t].pc \notin {"idle", "done"} /\ flow'[t].pc = "done")
         => /\ flow'[t].outcome = "timeout"
            /\ now - flow[t].called >= Timeout
            /\ now - flow[t].called <= Timeout + poll_interval]_vars

\* C16: what execute returns is a structured outcome: whenever it is not a
\* success it carries an error string.
C16_Structured ==
  \A t \in Tasks :
    (flow[t].kind = "execute" /\ flow[t].pc = "done" /\ flow[t].outcome # "success")
      => ErrorOf(flow[t]) \notin {"null", "absent"}

\* C17: assign on an unknown worker id or on a worker that is not idle
\* returns false in that same step, sends no request and changes no worker
\* record.
C17_Precondition ==
  [][\A t \in Tasks :
       (flow[t].kind = "none" /\ flow'[t].kind = "assign"
          /\ (flow'[t].w \notin workers \/ status[flow'[t].w] # "idle"))
         => /\ flow'[t].pc = "done" /\ flow'[t].outcome = "unavailable"
            /\ UNCHANGED <<workers, status, current_task, last_heartbeat, calls>>]_vars

\* C17 witness: an assign to an offline worker and an assign to an unknown
\* worker id were both turned away
C17_Witness ==
  \E t \in Tasks, u \in Tasks :
    /\ flow[t].kind = "assign" /\ flow[t].outcome = "unavailable"
    /\ flow[t].w \in workers /\ status[flow[t].w] = "offline"
    /\ flow[u].kind = "assign" /\ flow[u].outcome = "unavailable"
    /\ flow[u].w \notin workers

\* C18: started_at and completed_at of a task record, once set, never
\* change.
C18_SetOnce ==
  [][\A w \in WorkerIds, t \in Tasks :
       /\ wrec[w][t].started_at # None => wrec'[w][t].started_at = wrec[w][t].started_at
       /\ wrec[w][t].completed_at # None => wrec'[w][t].completed_at = wrec[w][t].completed_at]_vars

\* C19: while a task runs on a node, the tools in the node's registry are
\* among the skills the task declared.
C19_LeastPrivilege ==
  \A w \in WorkerIds, t \in Tasks :
    thread[w][t] = "running" => registry[w] \subseteq TaskSkills(t)

\* C20: a probe of w never changes w's current_task; a failed probe sets w
\* offline, leaves last_heartbeat alone and touches no flow; a successful
\* probe sets w busy if current_task is set when the response is processed
\* and idle otherwise, and sets last_heartbeat to the clock; nothing else
\* writes last_heartbeat.
C20_ProbeFrame ==
  [][\A w \in workers :
       /\ ProbeOk(w)
            => /\ status'[w] = (IF current_task[w] # None THEN "busy" ELSE "idle")
               /\ last_heartbeat'[w] = now
               /\ current_task'[w] = current_task[w] /\ flow' = flow
       /\ ProbeFailed(w)
            => /\ status'[w] = "offline"
               /\ last_heartbeat'[w] = last_heartbeat[w]
               /\ current_task'[w] = current_task[w] /\ flow' = flow
       /\ last_heartbeat'[w] # last_heartbeat[w] => ProbeOk(w)]_vars

\* C20 witness: a probe answered while an assign to the same worker was
\* under way, and the worker is busy with a fresh heartbeat
C20_Witness ==
  \E w \in workers, t \in Tasks :
    /\ flow[t].pc = "assign" /\ flow[t].w = w
    /\ status[w] = "busy" /\ current_task[w] = t
    /\ last_heartbeat[w] = now /\ now > 1

\* C21: get_available_worker returns the first worker in registration order
\* whose status is idle, and None exactly when no registered worker is idle;
\* it never returns a busy or offline worker and changes no worker record.
C21_FirstIdle ==
  [][\A t \in Tasks :
       (flow[t].kind = "none" /\ flow'[t].kind = "available")
         => /\ flow'[t].w = None <=> (\A w \in workers : status[w] # "idle")
            /\ flow'[t].w # None
                 => /\ flow'[t].w \in workers /\ status[flow'[t].w] = "idle"
                    /\ \A v \in workers : v < flow'[t].w => status[v] # "idle"
            /\ UNCHANGED <<workers, status, current_task, last_heartbeat, calls>>]_vars

\* C21 witness: the call passed over an offline worker and returned the idle
\* worker registered after it, and another call found no idle worker
C21_Witness ==
  \E t \in Tasks, u \in Tasks :
    /\ flow[t].kind = "available" /\ flow[t].w = 2
    /\ status[1] = "offline" /\ 2 \in workers
    /\ flow[u].kind = "available" /\ flow[u].w = None

\* an execute flow between its call and its return
InFlight(t) == flow[t].kind = "execute" /\ flow[t].pc \notin {"idle", "done"}

\* C22: execute calls without a worker id that run concurrently against as
\* many idle, accepting workers hold distinct workers, each returns the
\* success outcome, and a step of a flow changes the record of no worker but
\* its own.
C22_Parallel ==
  [][\A t \in Tasks :
       /\ \A u \in Tasks \ {t} : (InFlight(t)' /\ InFlight(u)') => flow'[t].w # flow'[u].w
       /\ (flow[t].pc # "done" /\ flow'[t].pc = "done") => flow'[t].outcome = "success"
       /\ flow'[t] # flow[t]
            => \A w \in workers \ {flow'[t].w} :
                 status'[w] = status[w] /\ current_task'[w] = current_task[w]]_vars

\* C22 witness: every gathered call has returned success, each from a
\* worker of its own
C22_Witness ==
  /\ \A t \in Tasks : flow[t].kind = "execute" /\ flow[t].outcome = "success"
  /\ \A t \in Tasks : \A u \in Tasks \ {t} : flow[t].w # flow[u].w

\* the Worker answers request c with response d in this step
Answers(c, d) == c.stage \in {"req", "cancelling"} /\ d.stage = "resp" /\ <<d.id, d.owner, d.op>> = <<c.id, c.owner, c.op>>

\* C23: POST /task/<id>/cancel is answered 200 exactly when the id is that of
\* a task the executor accepted and whose run has not finished, and 404
\* otherwise, a 404 leaving the task records and the executor as they were;
\* GET /task/<id>/result is answered 200 with the task record for every id
\* that was accepted and 404 for every other id.
C23_RouteAnswers ==
  [][\A c \in calls : \A d \in calls' :
       Answers(c, d)
         => /\ c.op = "cancel"
                 => /\ d.code = 200 <=> thread[c.w][c.t] \in {"spawned", "running"}
                    /\ d.code # 200 => d.code = 404 /\ UNCHANGED workerVars
            /\ c.op = "result"
                 => /\ d.code = 200 <=> thread[c.w][c.t] # "none"
                    /\ d.code = 200 => /\ d.rstatus = wtask[c.w][c.t]
                                       /\ d.rdata.result = wrec[c.w][c.t].result
                                       /\ d.rdata.error = wrec[c.w][c.t].error
                    /\ d.code # 200 => d.code = 404]_vars

C25_CancelAck ==
  [][\A t \in Tasks :
       /\ (flow[t].kind = "cancel" /\ flow[t].pc = "cancel" /\ flow'[t].pc = "done")
            => IF \E c \in Returning : c.op = "cancel" /\ c.owner = t /\ c.stage = "resp" /\ c.code = 200
               THEN /\ flow'[t].outcome = "cancelled"
                    /\ status'[flow[t].w] = "idle" /\ current_task'[flow[t].w] = None
               ELSE flow'[t].outcome = "not_cancelled"
       /\ (flow[t].kind # "cancel" /\ flow'[t].kind = "cancel" /\ flow'[t].w \notin workers)
            => /\ flow'[t].pc = "done" /\ flow'[t].outcome = "not_cancelled"
               /\ UNCHANGED <<workers, status, current_task, last_heartbeat, calls>>]_vars

\* C25 witness: a cancel returned True and its worker is idle with no
\* current_task while the task is still running on the node, and a cancel
\* naming an unregistered worker id returned False
C25_Witness ==
  \E t \in Tasks, u \in Tasks :
    /\ flow[t].kind = "cancel" /\ flow[t].outcome = "cancelled"
    /\ status[flow[t].w] = "idle" /\ current_task[flow[t].w] = None
    /\ thread[flow[t].w][t] = "running" /\ wcur[flow[t].w] = t
    /\ flow[u].kind = "cancel" /\ flow[u].outcome = "not_cancelled" /\ flow[u].w \notin workers

\* the n-th SubTask of the plan of the i-th call
Made(i, n) == planned[i].plan.subtasks[n]

\* C26: two distinct SubTasks the planner created, in one analyze_task call
\* or in two, never carry the same task_id: no task_id stands for two
\* different tasks.
C26_UniqueIds ==
  \A i \in 1..Len(planned), j \in 1..Len(planned) :
    \A n \in 1..Len(planned[i].plan.subtasks), m \in 1..Len(planned[j].plan.subtasks) :
      (<<i, n>> # <<j, m>> /\ Made(i, n).description # Made(j, m).description)
        => Made(i, n).task_id # Made(j, m).task_id

\* C27: the classification alone settles where the plan runs and what it
\* carries: a simple or moderate plan is local and has no subtasks, a complex
\* plan is delegated and carries the SubTasks of the split of the request.
C27_PlanByClass ==
  \A i \in 1..Len(planned) :
    LET p == planned[i].plan
    IN /\ p.complexity \in TaskComplexity
       /\ p.complexity \in {"simple", "moderate"} => p.handle_locally /\ p.subtasks = <<>>
       /\ p.complexity = "complex" => ~p.handle_locally /\ p.subtasks = split_into_subtasks(p.original_task)

\* C27 witness: the client called a request moderate that is full of complex
\* indicators, and the plan is local without subtasks
C27_Witness ==
  \E i \in 1..Len(planned) :
    /\ planned[i].llm.kind = "text" /\ planned[i].plan.complexity = "moderate"
    /\ Contains(planned[i].plan.original_task, "download")
    /\ planned[i].plan.handle_locally /\ planned[i].plan.subtasks = <<>>

\* some keyword of the set occurs in the lowercased text
Indicated(text, keywords) == \E k \in keywords : Contains(lower(text), k)

\* C28: without a client, a request is complex if its lowercased text
\* contains a complex indicator, else simple if it contains a simple
\* indicator, else moderate, the complex indicators winning when both occur;
\* 'download the file from example.com' is complex and delegated, 'list
\* files in /tmp' is simple and local with no subtasks.
C28_Heuristic ==
  \A i \in 1..Len(planned) :
    planned[i].llm = NoClient
      => LET p == planned[i].plan
         IN /\ Indicated(p.original_task, complex_indicators) => p.complexity = "complex"
            /\ (~Indicated(p.original_task, complex_indicators) /\ Indicated(p.original_task, simple_indicators))
                 => p.complexity = "simple"
            /\ (~Indicated(p.original_task, complex_indicators) /\ ~Indicated(p.original_task, simple_indicators))
                 => p.complexity = "moderate"
            /\ p.original_task = "download the file from example.com"
                 => p.complexity = "complex" /\ ~p.handle_locally
            /\ p.original_task = "list files in /tmp"
                 => p.complexity = "simple" /\ p.handle_locally /\ Len(p.subtasks) = 0

\* C28 witness: a request with a simple indicator in capitals and a complex
\* one was planned as complex
C28_Witness ==
  \E i \in 1..Len(planned) :
    /\ planned[i].llm = NoClient
    /\ Contains(planned[i].plan.original_task, "List") /\ Contains(planned[i].plan.original_task, "download")
    /\ planned[i].plan.complexity = "complex" /\ ~planned[i].plan.handle_locally

Filled(x) == x # ""
Words(s) == SelectSeq(split(replace(s, ",", " , "), " "), Filled)

\* the fragments of a sequence of words: the non-empty runs of words between
\* the words "and" and ","
RECURSIVE Fragments(_, _, _)
Fragments(words, n, run) ==
  IF n > Len(words) THEN (IF run = <<>> THEN <<>> ELSE <<run>>)
  ELSE IF words[n] \in {"and", ","} THEN (IF run = <<>> THEN <<>> ELSE <<run>>) \o Fragments(words, n + 1, <<>>)
  ELSE Fragments(words, n + 1, Append(run, words[n]))

\* the words of run stand one after the other in words
Within(run, words) == \E k \in 0..(Len(words) - Len(run)) : SubSeq(words, k + 1, k + Len(run)) = run

\* C30: the SubTasks of a complex request are its non-empty fragments between
\* the word "and" and the comma, one SubTask for each, holding its fragment,
\* in the order of the request: two for 'fix this and also download the
\* file', one holding the whole request when there is no separator; each
\* SubTask is tagged with exactly the skills that have a keyword in its own
\* fragment.
C30_Split ==
  \A i \in 1..Len(planned) :
    LET p == planned[i].plan
        fragments == Fragments(Words(p.original_task), 1, <<>>)
    IN p.complexity = "complex"
         => /\ Len(p.subtasks) = Len(fragments)
            /\ \A n \in 1..Len(p.subtasks) :
                 /\ n <= Len(fragments) => Within(fragments[n], Words(p.subtasks[n].description))
                 /\ \A skill \in DOMAIN skill_map :
                      skill \in p.subtasks[n].skills <=> Indicated(p.subtasks[n].description, skill_map[skill])
            /\ p.original_task = "fix this and also download the file"
                 => /\ Len(p.subtasks) = 2
                    /\ "web_fetch" \in p.subtasks[2].skills /\ "web_fetch" \notin p.subtasks[1].skills

\* the moment task t became terminal on node w: completed_at, or the present
\* while the thread has set the status and not yet completed_at
TerminalAt(w, t) == IF wrec[w][t].completed_at # None THEN wrec[w][t].completed_at ELSE now

\* execute_task(t) returns its success outcome in this step
ReturnsSuccess(t) == flow[t].kind = "execute" /\ flow[t].pc = "result" /\ flow'[t].outcome = "success"

\* the moment from which the poll loop of t could have seen the terminal
\* status: the later of start_time and the moment the task became terminal
Reportable(w, t) == IF TerminalAt(w, t) > flow[t].start THEN TerminalAt(w, t) ELSE flow[t].start

\* C31: when execute_task returns a success outcome the worker is left idle,
\* the elapsed it reports is less than one poll interval above the moment the
\* task became terminal (counted from start_time, as elapsed is), and it is
\* below 2s for a task that the executor finished 1s after it accepted it.
C31_Elapsed ==
  [][\A t \in Tasks :
       ReturnsSuccess(t)
         => LET w == flow[t].w
            IN /\ status'[w] = "idle"
               /\ flow[t].start + flow'[t].elapsed - Reportable(w, t) < poll_interval
               /\ TerminalAt(w, t) = wrec[w][t].started_at + 1 => flow'[t].elapsed < 2]_vars

\* an address: a value that is set, not empty and not a ${...} placeholder
RealAddress(var) == var.set /\ var.value # "" /\ ~(Len(var.value) >= 2 /\ SubSeq(var.value, 1, 2) = "${")

\* C32: the pool create_default_worker_pool returns holds the slot worker-n
\* exactly when the variable WORKER_n_IP is a real address, for each of the
\* three slots.
C32_Slots == startup.created => \A n \in Slots : n \in workers <=> RealAddress(startup.environ[n])

\* assign_task(w, t) returns False after its network call in this step
AssignFails(t) == flow[t].pc = "assign" /\ flow'[t].outcome = "assign_failed"

\* C33: the rollback of a failing assign(w, t) resets w to idle and clears
\* current_task only if w still shows t as its current_task; when w shows a
\* newer assignment, the failing assign leaves w's record as it is.
C33_NoClobber ==
  [][\A t \in Tasks :
       AssignFails(t)
         => LET w == flow[t].w
            IN IF current_task[w] = t
               THEN status'[w] = "idle" /\ current_task'[w] = None
               ELSE status'[w] = status[w] /\ current_task'[w] = current_task[w]]_vars

\* C34: get_task_result(w, t) changes the record of worker w only when t is
\* w's current_task: the result of another task id, whatever its status,
\* leaves the status and the current_task of w as they are.
C34_ForeignPoll ==
  [][\A w \in workers :
       \A c \in Processed("result", w) :
         c.t # current_task[w] => status'[w] = status[w] /\ current_task'[w] = current_task[w]]_vars

\* C35: the Master's copy of a task is pending before it is assigned,
\* assigned with the worker recorded once assign_task has returned True, and
\* completed or failed once execute_task has returned; its status is always
\* one of pending, assigned, completed, failed.
C35_MasterCopy ==
  \A t \in Tasks :
    /\ subtask[t].status \in {"pending", "assigned", "completed", "failed"}
    /\ flow[t].kind = "none" => subtask[t].status = "pending"
    /\ (flow[t].outcome = "assigned" \/ (flow[t].kind = "execute" /\ flow[t].pc \in {"poll", "result", "cancel"}))
         => subtask[t].status = "assigned" /\ subtask[t].worker_id = flow[t].w
    /\ (flow[t].kind = "execute" /\ flow[t].pc = "done") => subtask[t].status \in {"completed", "failed"}

\* the place of a position of TaskWorker.run in the lifecycle: before Load,
\* after Load, after Prepare, after Run (or a failed step), after Publish,
\* after Destroy
Rank(pc) ==
  CASE pc = "new" -> 0
    [] pc = "loaded" -> 1
    [] pc = "ready" -> 2
    [] pc = "finally" -> 3
    [] pc = "cleanup" -> 4
    [] pc = "returned" -> 5

\* C36: the steps of the lifecycle are entered in the order Load, Prepare,
\* Run, Publish, Destroy, each at most once; on every path the result has
\* been written exactly once when Publish is over, and the scratch directory
\* is removed only after that.
C36_Lifecycle ==
  /\ [][tw' # tw => Rank(tw'.pc) > Rank(tw.pc)]_vars
  /\ [](tw.pc \in {"cleanup", "returned"} => tw.saved = 1)
  /\ [](tw.pc \in {"new", "loaded", "ready", "finally"} => tw.saved = 0)
  /\ [][(tw.dir_exists /\ ~tw'.dir_exists) => tw.saved = 1]_vars

\* the terminal statuses of a worker-side task
Terminal == {"completed", "failed", "cancelled"}

\* C37: a task record of the Worker carries a result or an error exactly
\* when its status is terminal, and so does every 200 response of the result
\* route: completed comes with the result, failed and cancelled with the
\* error, and a status that is not terminal with neither.
C37_PayloadIffTerminal ==
  /\ \A w \in WorkerIds, t \in Tasks :
       wtask[w][t] # "absent"
         => (wtask[w][t] \in Terminal <=> (wrec[w][t].result # "null" \/ wrec[w][t].error # "null"))
  /\ \A c \in Responses("result") :
       c.code = 200
         => /\ c.rstatus = "completed" => c.rdata.result # "null"
            /\ c.rstatus \in {"failed", "cancelled"} => c.rdata.error # "null"
            /\ c.rstatus \notin Terminal => c.rdata = NoData

\* how far a status is along pending, running, terminal
Stage(st) == IF st = "pending" THEN 1 ELSE IF st = "running" THEN 2 ELSE IF st \in Terminal THEN 3 ELSE 0

\* C38: the status of a worker-side task only moves forward along pending,
\* running, then completed, failed or cancelled, and a terminal status
\* never changes again, whatever the order of cancel requests and the end of
\* the background run.
C38_Absorbing ==
  [][\A w \in WorkerIds, t \in Tasks :
       /\ Stage(wtask'[w][t]) >= Stage(wtask[w][t])
       /\ wtask[w][t] \in Terminal => wtask'[w][t] = wtask[w][t]]_vars

\* the task of monitor_loop is alive: created, probing or asleep
Alive(m) == m.task \in {"created", "probe", "sleep"}

\* C39: from start_monitoring to stop_monitoring the task of monitor_loop
\* stays alive, whatever assign_task, add_worker and remove_worker calls
\* interleave with a sweep; a sweep that ends has probed every registered
\* worker; assign_task proceeds while a probe is in flight; and
\* start_monitoring creates no task while monitoring is on.
C39_MonitorRuns ==
  /\ [](monitor.monitoring => Alive(monitor))
  /\ [][(monitor.task = "probe" /\ monitor'.task = "sleep") => workers \subseteq monitor'.results]_vars
  /\ [][(monitor.monitoring /\ monitor'.task = "created") => monitor.task = "created"]_vars
  /\ [](monitor.task = "probe" => \A w \in workers : is_available(w) => \A t \in Tasks : flow[t].kind = "none" => ENABLED AssignCall(t, w))

\* task t was accepted by node w and its run has not finished
Unrun(w, t) == thread[w][t] \in {"spawned", "running"}

\* C40: every task a Worker has accepted eventually has a terminal status,
\* and the executor's current task is eventually cleared, when the run step
\* returns or raises; and the executor's current task is not None as long as
\* an accepted task has not finished its run.
C40_AcceptedRuns ==
  /\ \A w \in WorkerIds, t \in Tasks : (thread[w][t] = "spawned") ~> (wtask[w][t] \in Terminal)
  /\ \A w \in WorkerIds, t \in Tasks : (thread[w][t] = "spawned") ~> (thread[w][t] = "ended" /\ wcur[w] = None)
  /\ [](\A w \in WorkerIds, t \in Tasks : Unrun(w, t) => wcur[w] # None)

====
